---------------------------- MODULE Spec2Model ----------------------------
(***************************************************************************)
(* The PCA tutorial notebook Week_10/Day1/PCA_Introduction: load a table,  *)
(* standardize it, compute covariance and its eigen-decomposition, sort    *)
(* the eigenpairs, reduce with a library PCA, plot.                        *)
(*                                                                         *)
(* Real numbers are exact: a number is a finite sum of terms               *)
(* (n/d)*sqrt(r) with r square-free, so that the square roots taken by the *)
(* standardizer and the normalisation of eigenvectors are not rounded.     *)
(*                                                                         *)
(* The code cells are read as the Python statements they hold between      *)
(* their ```python fences; a cell is run once, top to bottom, in document  *)
(* order.  The loaded table ranges over a small family of tables (constant *)
(* columns and affine images of contrast columns) in place of the iris     *)
(* table, so that covariances and eigenvalues stay rational.  The library  *)
(* calls (StandardScaler, np.cov, np.linalg.eig, np.argsort, PCA,          *)
(* pd.DataFrame) are modelled by what the libraries compute; where a       *)
(* library leaves a result open (order and sign of eigenvectors, basis of  *)
(* a repeated eigenvalue, order of ties in argsort) every outcome is       *)
(* allowed.                                                                *)
(***************************************************************************)
EXTENDS Integers, Sequences, FiniteSets

(***************************************************************************)
(* Bounds of the model.                                                    *)
(***************************************************************************)
\* number of samples (rows) of the loaded table
NumSamples == 3

\* the largest component count requested of the Reducer (the smallest is -1)
MaxRequested == 4

(***************************************************************************)
(* Exact arithmetic.                                                       *)
(***************************************************************************)
Abs(a) == IF a < 0 THEN -a ELSE a

Sgn(a) == IF a < 0 THEN -1 ELSE IF a = 0 THEN 0 ELSE 1

RECURSIVE GCD(_, _)
GCD(a, b) == IF b = 0 THEN a ELSE GCD(b, a % b)

\* the largest s with s*s dividing m (m >= 1)
SqPart(m) ==
  LET S == {s \in 1..m : s * s <= m /\ m % (s * s) = 0}
  IN  CHOOSE s \in S : \A t \in S : t <= s

\* the number (n/d)*sqrt(r), d >= 1, r >= 1, in canonical form
MkTerm(n, d, r) ==
  IF n = 0 THEN {}
  ELSE LET s  == SqPart(r)
           n1 == n * s
           g  == GCD(Abs(n1), d)
       IN  {[n |-> n1 \div g, d |-> d \div g, r |-> r \div (s * s)]}

Zero == {}

Rat(n, d) == MkTerm(Sgn(d) * n, Abs(d), 1)

Int2Num(n) == Rat(n, 1)

\* the coefficient pair <<n, d>> of sqrt(r) in A
Coef(A, r) ==
  IF \E t \in A : t.r = r
  THEN LET t == CHOOSE u \in A : u.r = r IN <<t.n, t.d>>
  ELSE <<0, 1>>

Add(A, B) ==
  UNION { LET a == Coef(A, r)
              b == Coef(B, r)
          IN  MkTerm(a[1] * b[2] + b[1] * a[2], a[2] * b[2], r)
          : r \in {t.r : t \in A \cup B} }

Neg(A) == {[n |-> -t.n, d |-> t.d, r |-> t.r] : t \in A}

Sub(A, B) == Add(A, Neg(B))

RECURSIVE SumSet(_)
SumSet(S) ==
  IF S = {} THEN Zero
  ELSE LET x == CHOOSE e \in S : TRUE IN Add(x[2], SumSet(S \ {x}))

\* the sum of f[i] over i in D (f a function to numbers)
Sum(f, D) == SumSet({<<i, f[i]>> : i \in D})

Mul(A, B) ==
  SumSet({<<<<t, u>>, MkTerm(t.n * u.n, t.d * u.d, t.r * u.r)>> : t \in A, u \in B})

\* the results of 0/0 and of x/0 (x # 0) in floating point
NaN == {[n |-> 0, d |-> 0, r |-> 1]}

Inf == {[n |-> 1, d |-> 0, r |-> 1]}

\* 1/B for a one-term B
Inv(B) ==
  LET t == CHOOSE u \in B : TRUE
  IN  MkTerm(Sgn(t.n) * t.d, Abs(t.n) * t.r, t.r)

\* A / B as numpy divides: no exception on a zero divisor
Div(A, B) ==
  IF B = Zero THEN (IF A = Zero THEN NaN ELSE Inf) ELSE Mul(A, Inv(B))

\* sqrt of a rational A >= 0
Sqrt(A) ==
  IF A = Zero THEN Zero
  ELSE LET t == CHOOSE u \in A : TRUE IN MkTerm(1, t.d, t.n * t.d)

\* A <= B, for rational A and B
Leq(A, B) ==
  LET a == Coef(A, 1)
      b == Coef(B, 1)
  IN  a[1] * b[2] <= b[1] * a[2]

Less(A, B) == Leq(A, B) /\ A # B

One == Int2Num(1)

Min2(a, b) == IF a <= b THEN a ELSE b

(***************************************************************************)
(* Tables.  A table is a sequence of rows, T[i][j] as in the source.       *)
(***************************************************************************)
NRows(T) == Len(T)

NCols(T) == Len(T[1])

Column(T, j) == [i \in 1..NRows(T) |-> T[i][j]]

\* T.T
Transpose(T) == [j \in 1..NCols(T) |-> Column(T, j)]

\* A @ B
MatMul(A, B) ==
  [i \in 1..NRows(A) |->
     [c \in 1..NCols(B) |->
        Sum([l \in 1..NCols(A) |-> Mul(A[i][l], B[l][c])], 1..NCols(A))]]

\* T, its columns left where they are
KeepColumns(T, idx) == T

\* T[:, idx]
TakeColumns(T, idx) ==
  [i \in 1..NRows(T) |-> [c \in 1..Len(idx) |-> T[i][idx[c]]]]

\* v[idx]
TakeItems(v, idx) == [c \in 1..Len(idx) |-> v[idx[c]]]

\* v, not reversed
NotReversed(v) == v

\* v[::-1]
Reversed(v) == [c \in 1..Len(v) |-> v[Len(v) + 1 - c]]

(***************************************************************************)
(* load_iris(): the loaded table.  Feature j is constant (kind 0) or an    *)
(* affine image of the contrast of its kind (kind b >= 1: b ones, then -b, *)
(* then zeros).  Features of different kinds are uncorrelated, features of *)
(* one kind are correlated with coefficient 1 or -1, so the eigenvalues    *)
(* of the covariance matrix are rational.  The tables cover: a constant    *)
(* feature, all features constant, simple, repeated and zero eigenvalues,  *)
(* two and three features.                                                 *)
(***************************************************************************)
KindAssignments ==
  { <<1, 2>>, <<1, 1>>, <<0, 1>>, <<0, 0>>,
    <<1, 1, 2>>, <<1, 2, 0>>, <<1, 1, 1>>, <<2, 1, 2>> }

Contrast(b) ==
  [i \in 1..NumSamples |->
     IF b = 0 THEN 0 ELSE IF i <= b THEN 1 ELSE IF i = b + 1 THEN -b ELSE 0]

Slope(j) == IF j % 2 = 0 THEN -j ELSE j

Table(kinds) ==
  [i \in 1..NumSamples |->
     [j \in 1..Len(kinds) |-> j + Slope(j) * Contrast(kinds[j])[i]]]

Datasets == {Table(kinds) : kinds \in KindAssignments}

Targets == [i \in 1..NumSamples |-> (i - 1) % 3]

(***************************************************************************)
(* StandardScaler().fit_transform(X)                                       *)
(***************************************************************************)
Mean(col) == Div(Sum(col, DOMAIN col), Int2Num(Len(col)))

\* the sample variance (denominator N - 1)
SampleVar(col) ==
  LET mu == Mean(col)
  IN  Div(Sum([i \in DOMAIN col |-> Mul(Sub(col[i], mu), Sub(col[i], mu))],
              DOMAIN col),
          Int2Num(Len(col) - 1))

\* np.var(col): the population variance (denominator N)
Var(col) ==
  LET mu == Mean(col)
  IN  Div(Sum([i \in DOMAIN col |-> Mul(Sub(col[i], mu), Sub(col[i], mu))],
              DOMAIN col),
          Int2Num(Len(col)))

\* a zero scale kept as it is
KeepZerosInScale(s) == s

\* a zero scale is replaced by 1
HandleZerosInScale(s) == IF s = Zero THEN One ELSE s

Scale(col) == HandleZerosInScale(Sqrt(Var(col)))

AsNumbers(T) == [i \in 1..NRows(T) |-> [j \in 1..NCols(T) |-> Int2Num(T[i][j])]]

StandardScalerFitTransform(T) ==
  LET A == AsNumbers(T)
  IN  [i \in 1..NRows(A) |->
         [j \in 1..NCols(A) |->
            Div(Sub(A[i][j], Mean(Column(A, j))), Scale(Column(A, j)))]]

(***************************************************************************)
(* np.cov(m): the rows of m are the variables; denominator N - 1.          *)
(***************************************************************************)
NpCov(m) ==
  LET n   == NCols(m)
      avg == [j \in 1..NRows(m) |-> Mean(m[j])]
      c   == [j \in 1..NRows(m) |-> [i \in 1..n |-> Sub(m[j][i], avg[j])]]
  IN  [j \in 1..NRows(m) |->
         [l \in 1..NRows(m) |->
            Div(Sum([i \in 1..n |-> Mul(c[j][i], c[l][i])], 1..n),
                Int2Num(n - 1))]]

(***************************************************************************)
(* np.linalg.eig(a): any eigen-decomposition of a.  An eigenvector is a    *)
(* direction with components in {-1, 0, 1}, normalised to unit length;     *)
(* the order of the pairs, the sign of each vector and the basis of a      *)
(* repeated eigenvalue are the solver's.  The vectors of a symmetric       *)
(* matrix are mutually orthogonal.                                         *)
(***************************************************************************)
Directions(m) ==
  {v \in [1..m -> {-1, 0, 1}] : \E j \in 1..m : v[j] # 0}

RECURSIVE SumInts(_, _)
SumInts(f, n) == IF n = 0 THEN 0 ELSE f[n] + SumInts(f, n - 1)

Dot(v, w) == SumInts([j \in DOMAIN v |-> v[j] * w[j]], Len(v))

\* a @ v
MatVec(a, v) ==
  [j \in 1..NRows(a) |->
     Sum([l \in 1..NCols(a) |-> Mul(a[j][l], Int2Num(v[l]))], 1..NCols(a))]

\* the Rayleigh value of direction v: (a v)[j] / v[j] at the first j with v[j] # 0
ValueAt(a, v) ==
  LET j == CHOOSE i \in DOMAIN v : v[i] # 0 /\ \A h \in 1..(i - 1) : v[h] = 0
  IN  Div(MatVec(a, v)[j], Int2Num(v[j]))

IsEigenPair(a, val, v) ==
  \A j \in DOMAIN v : MatVec(a, v)[j] = Mul(val, Int2Num(v[j]))

EigenPairs(a) ==
  {p \in {[val |-> ValueAt(a, v), vec |-> v] : v \in Directions(NRows(a))} :
     IsEigenPair(a, p.val, p.vec)}

\* the sequences of k mutually orthogonal pairs of P
RECURSIVE OrthogonalSeqs(_, _)
OrthogonalSeqs(P, k) ==
  IF k = 0 THEN {<<>>}
  ELSE UNION { {Append(s, p) :
                  p \in {q \in P : \A i \in 1..Len(s) : Dot(s[i].vec, q.vec) = 0}}
               : s \in OrthogonalSeqs(P, k - 1) }

Unit(v) ==
  [j \in DOMAIN v |-> Div(Int2Num(v[j]), Sqrt(Int2Num(Dot(v, v))))]

\* the matrix whose column c is the unit vector of pairs[c]
VectorMatrix(pairs) ==
  [j \in 1..Len(pairs[1].vec) |-> [c \in 1..Len(pairs) |-> Unit(pairs[c].vec)[j]]]

\* the values np.linalg.eig(a) may return: [w, v]
NpLinalgEig(a) ==
  {[w |-> [c \in 1..NRows(a) |-> pairs[c].val], v |-> VectorMatrix(pairs)] :
     pairs \in OrthogonalSeqs(EigenPairs(a), NRows(a))}

(***************************************************************************)
(* np.argsort(v): an index sequence that sorts v ascending; the order of   *)
(* equal items is the sort routine's.                                      *)
(***************************************************************************)
Permutations(n) ==
  {p \in [1..n -> 1..n] : \A i, j \in 1..n : p[i] = p[j] => i = j}

NpArgsort(v) ==
  {p \in Permutations(Len(v)) :
     \A i \in 1..(Len(v) - 1) : Leq(v[p[i]], v[p[i + 1]])}

(***************************************************************************)
(* PCA(n_components=k).fit_transform(X)                                    *)
(***************************************************************************)
\* the component count literal of the notebook
NComponents == 2

\* a check that wants at least one component
PcaAcceptsFromOne(k, X) == 1 <= k /\ k <= Min2(NRows(X), NCols(X))

\* the check of n_components against the shape of X (full SVD solver)
PcaAccepts(k, X) == 0 <= k /\ k <= Min2(NRows(X), NCols(X))

\* X - X.mean(axis=0)
Centered(X) ==
  [i \in 1..NRows(X) |-> [j \in 1..NCols(X) |-> Sub(X[i][j], Mean(Column(X, j)))]]

\* no order asked of the singular values
AnyOrder(pairs) == TRUE

\* the smallest value first
NonDecreasing(pairs) ==
  \A c \in 1..(Len(pairs) - 1) : Leq(pairs[c].val, pairs[c + 1].val)

NonIncreasing(pairs) ==
  \A c \in 1..(Len(pairs) - 1) : Leq(pairs[c + 1].val, pairs[c].val)

\* the singular value decompositions of the centered X, as the pairs
\* (squared singular value, right singular vector), largest value first
Svd(Xc) ==
  {pairs \in OrthogonalSeqs(EigenPairs(MatMul(Transpose(Xc), Xc)), NCols(Xc)) :
     NonIncreasing(pairs)}

\* S**2 / (n_samples - 1)
ExplainedVariance(pairs, n) ==
  [c \in 1..Len(pairs) |-> Div(pairs[c].val, Int2Num(n - 1))]

\* explained_variance_ / total_var, the first k
ExplainedVarianceRatio(ev, k) ==
  LET total == Sum(ev, DOMAIN ev)
  IN  [c \in 1..k |-> Div(ev[c], total)]

\* the first k right singular vectors, one per row
Components(pairs, k) == [c \in 1..k |-> Unit(pairs[c].vec)]

\* X_new[i][c] = Xc[i] . components_[c]
Project(Xc, comps) ==
  [i \in 1..NRows(Xc) |->
     [c \in 1..Len(comps) |->
        Sum([j \in 1..NCols(Xc) |-> Mul(Xc[i][j], comps[c][j])], 1..NCols(Xc))]]

\* the fitted estimators and outputs PCA(n_components=k).fit_transform(X) may give
PcaFitTransform(k, X) ==
  LET Xc == Centered(X)
  IN  {[components_ |-> Components(pairs, k),
        explained_variance_ratio_ |->
          ExplainedVarianceRatio(ExplainedVariance(pairs, NRows(X)), k),
        X_new |-> Project(Xc, Components(pairs, k))] : pairs \in Svd(Xc)}

(***************************************************************************)
(* The notebook: its statements in document order, the kernel's namespace  *)
(* and outputs.                                                            *)
(***************************************************************************)
VARIABLES
  pc,            \* index in Program of the next statement group
  In,            \* the statement groups executed so far, in order
  ns,            \* the names bound in the kernel's namespace
  error,         \* "none", or the exception that stopped the run
  X, y,          \* the loaded table and labels
  X_std, df,     \* the standardized table, and its data frame
  cov_matrix,
  eigenvalues, eigenvectors, sorted_idx,
  n_components,  \* the component count given to PCA
  pca,           \* the fitted PCA
  X_pca, df_pca,
  stdout,        \* what was printed
  shown          \* what plt.show() displayed

vars == <<pc, In, ns, error, X, y, X_std, df, cov_matrix, eigenvalues,
          eigenvectors, sorted_idx, n_components, pca, X_pca, df_pca,
          stdout, shown>>

\* the cells with the covariance ahead of the standardizer
ProgramCovFirst == <<"load", "cov", "standardize", "eig", "sort", "print_eig",
                     "reduce", "frame", "present">>

\* the statement groups of the code cells, in document order
Program == <<"load", "standardize", "cov", "eig", "sort", "print_eig",
             "reduce", "frame", "present">>

\* the names a statement group reads
Reads(step) ==
  CASE step = "load"        -> {}
    [] step = "standardize" -> {"X", "y"}
    [] step = "cov"         -> {"X_std"}
    [] step = "eig"         -> {"cov_matrix"}
    [] step = "sort"        -> {"eigenvalues", "eigenvectors"}
    [] step = "print_eig"   -> {"eigenvalues", "eigenvectors"}
    [] step = "reduce"      -> {"X_std"}
    [] step = "frame"       -> {"X_pca", "y", "pca"}
    [] step = "present"     -> {"df_pca"}

At(step) ==
  /\ error = "none"
  /\ pc \in 1..Len(Program)
  /\ Program[pc] = step
  /\ In' = Append(In, step)

\* an exception stops the run: nothing is bound by the failing statement
Raise(e) ==
  /\ error' = e
  /\ UNCHANGED <<pc, ns, X, y, X_std, df, cov_matrix, eigenvalues, eigenvectors,
                 sorted_idx, n_components, pca, X_pca, df_pca, stdout, shown>>

Done(names) ==
  /\ pc' = pc + 1
  /\ ns' = ns \cup names
  /\ error' = error

\* iris = load_iris(); X = iris.data; y = iris.target
Load ==
  /\ At("load")
  /\ \E T \in Datasets : X' = T
  /\ y' = Targets
  /\ Done({"X", "y"})
  /\ UNCHANGED <<X_std, df, cov_matrix, eigenvalues, eigenvectors, sorted_idx,
                 n_components, pca, X_pca, df_pca, stdout, shown>>

\* the standardizer centering X itself before it scales (copy=False)
StandardizeInPlace ==
  /\ At("standardize")
  /\ X_std' = StandardScalerFitTransform(X)
  /\ X' = [i \in 1..NRows(X) |-> [j \in 1..NCols(X) |-> X[i][j] - X[1][j]]]
  /\ df' = [data |-> X_std', target |-> y]
  /\ Done({"X_std", "df"})
  /\ UNCHANGED <<y, cov_matrix, eigenvalues, eigenvectors, sorted_idx,
                 n_components, pca, X_pca, df_pca, stdout, shown>>

\* X_std = StandardScaler().fit_transform(X); df = DataFrame(X_std); df['target'] = y
Standardize ==
  /\ At("standardize")
  /\ IF Reads("standardize") \subseteq ns
     THEN /\ X_std' = StandardScalerFitTransform(X)
          /\ df' = [data |-> X_std', target |-> y]
          /\ Done({"X_std", "df"})
          /\ UNCHANGED <<X, y, cov_matrix, eigenvalues, eigenvectors, sorted_idx,
                         n_components, pca, X_pca, df_pca, stdout, shown>>
     ELSE Raise("NameError")

\* cov_matrix = np.cov(X_std.T)
Cov ==
  /\ At("cov")
  /\ IF Reads("cov") \subseteq ns
     THEN /\ cov_matrix' = NpCov(Transpose(X_std))
          /\ Done({"cov_matrix"})
          /\ UNCHANGED <<X, y, X_std, df, eigenvalues, eigenvectors, sorted_idx,
                         n_components, pca, X_pca, df_pca, stdout, shown>>
     ELSE Raise("NameError")

\* eigenvalues, eigenvectors = np.linalg.eig(cov_matrix)
Eig ==
  /\ At("eig")
  /\ IF Reads("eig") \subseteq ns
     THEN /\ \E o \in NpLinalgEig(cov_matrix) :
               /\ eigenvalues' = o.w
               /\ eigenvectors' = o.v
          /\ Done({"eigenvalues", "eigenvectors"})
          /\ UNCHANGED <<X, y, X_std, df, cov_matrix, sorted_idx,
                         n_components, pca, X_pca, df_pca, stdout, shown>>
     ELSE Raise("NameError")

\* the sort statements behind a check of the eigenvalues against the tolerance
SortChecked ==
  /\ At("sort")
  /\ IF \E i \in 1..Len(eigenvalues) : Less(eigenvalues[i], Rat(0 - 1, 1000000))
     THEN Raise("NumericalError")
     ELSE /\ \E p \in NpArgsort(eigenvalues) : sorted_idx' = Reversed(p)
          /\ eigenvalues' = TakeItems(eigenvalues, sorted_idx')
          /\ eigenvectors' = TakeColumns(eigenvectors, sorted_idx')
          /\ Done({"sorted_idx"})
          /\ UNCHANGED <<X, y, X_std, df, cov_matrix,
                         n_components, pca, X_pca, df_pca, stdout, shown>>

\* sorted_idx = np.argsort(eigenvalues)[::-1]
\* eigenvalues = eigenvalues[sorted_idx]; eigenvectors = eigenvectors[:, sorted_idx]
Sort ==
  /\ At("sort")
  /\ IF Reads("sort") \subseteq ns
     THEN /\ \E p \in NpArgsort(eigenvalues) : sorted_idx' = Reversed(p)
          /\ eigenvalues' = TakeItems(eigenvalues, sorted_idx')
          /\ eigenvectors' = TakeColumns(eigenvectors, sorted_idx')
          /\ Done({"sorted_idx"})
          /\ UNCHANGED <<X, y, X_std, df, cov_matrix,
                         n_components, pca, X_pca, df_pca, stdout, shown>>
     ELSE Raise("NameError")

\* print("Eigenvalues:", eigenvalues); print("Eigenvectors:\n", eigenvectors)
PrintEig ==
  /\ At("print_eig")
  /\ IF Reads("print_eig") \subseteq ns
     THEN /\ stdout' = stdout \o <<[Eigenvalues |-> eigenvalues],
                                   [Eigenvectors |-> eigenvectors]>>
          /\ Done({})
          /\ UNCHANGED <<X, y, X_std, df, cov_matrix, eigenvalues, eigenvectors,
                         sorted_idx, n_components, pca, X_pca, df_pca, shown>>
     ELSE Raise("NameError")

\* pca = PCA(n_components=2); X_pca = pca.fit_transform(X_std)
Reduce ==
  /\ At("reduce")
  /\ IF ~(Reads("reduce") \subseteq ns) THEN Raise("NameError")
     ELSE IF ~PcaAccepts(n_components, X_std) THEN Raise("ValueError")
     ELSE /\ \E o \in PcaFitTransform(n_components, X_std) :
               /\ pca' = [components_ |-> o.components_,
                          explained_variance_ratio_ |-> o.explained_variance_ratio_]
               /\ X_pca' = o.X_new
          /\ Done({"pca", "X_pca"})
          /\ UNCHANGED <<X, y, X_std, df, cov_matrix, eigenvalues, eigenvectors,
                         sorted_idx, n_components, df_pca, stdout, shown>>

\* the column names given to the data frame of the components
FrameColumns == <<"PC1", "PC2">>

\* df_pca = pd.DataFrame(X_pca, columns=['PC1', 'PC2']); df_pca['target'] = y
\* print("Explained variance ratio:", pca.explained_variance_ratio_)
Frame ==
  /\ At("frame")
  /\ IF ~(Reads("frame") \subseteq ns) THEN Raise("NameError")
     ELSE IF NCols(X_pca) # Len(FrameColumns) THEN Raise("ValueError")
     ELSE /\ df_pca' = [data |-> X_pca, columns |-> FrameColumns, target |-> y]
          /\ stdout' = Append(stdout,
                         [ExplainedVarianceRatio |-> pca.explained_variance_ratio_])
          /\ Done({"df_pca"})
          /\ UNCHANGED <<X, y, X_std, df, cov_matrix, eigenvalues, eigenvectors,
                         sorted_idx, n_components, pca, X_pca, shown>>

\* sns.scatterplot(x='PC1', y='PC2', hue='target', data=df_pca); plt.show()
Present ==
  /\ At("present")
  /\ IF Reads("present") \subseteq ns
     THEN /\ shown' = df_pca
          /\ Done({})
          /\ UNCHANGED <<X, y, X_std, df, cov_matrix, eigenvalues, eigenvectors,
                         sorted_idx, n_components, pca, X_pca, df_pca, stdout>>
     ELSE Raise("NameError")

\* a fresh kernel: nothing bound, nothing printed
Fresh ==
  /\ In = <<>>
  /\ error = "none"
  /\ X = <<>> /\ y = <<>> /\ X_std = <<>> /\ df = <<>>
  /\ cov_matrix = <<>> /\ eigenvalues = <<>> /\ eigenvectors = <<>>
  /\ sorted_idx = <<>> /\ pca = <<>> /\ X_pca = <<>> /\ df_pca = <<>>
  /\ stdout = <<>> /\ shown = <<>>

Init ==
  /\ Fresh
  /\ pc = 1
  /\ ns = {}
  /\ n_components = NComponents

Next ==
  \/ Load
  \/ Standardize
  \/ Cov
  \/ Eig
  \/ Sort
  \/ PrintEig
  \/ Reduce
  \/ Frame
  \/ Present

Spec == Init /\ [][Next]_vars

(***************************************************************************)
(* The pipeline as a function of the requested component count: the same   *)
(* notebook with the literal of PCA(n_components=...) drawn from           *)
(* RequestedComponents.                                                    *)
(***************************************************************************)
RequestedComponents == (0 - 1)..MaxRequested

InitK ==
  /\ Fresh
  /\ pc = 1
  /\ ns = {}
  /\ n_components \in RequestedComponents

SpecK == InitK /\ [][Next]_vars

(***************************************************************************)
(* The sort and print statements, and the cells after them, as a function  *)
(* of what the eigen-solver returned: the kernel after the "eig" statement *)
(* with any value sequence in place of the solver's.                       *)
(***************************************************************************)
SolverValues == {Int2Num(0 - 1), Rat(0 - 1, 10000000), Zero, One}

Identity(m) ==
  [j \in 1..m |-> [c \in 1..m |-> IF j = c THEN One ELSE Zero]]

InitSolver ==
  /\ pc = 5
  /\ In = SubSeq(Program, 1, 4)
  /\ ns = {"X", "y", "X_std", "df", "cov_matrix", "eigenvalues", "eigenvectors"}
  /\ error = "none"
  /\ n_components = NComponents
  /\ \E T \in Datasets :
       /\ X = T
       /\ X_std = StandardScalerFitTransform(T)
       /\ cov_matrix = NpCov(Transpose(StandardScalerFitTransform(T)))
       /\ eigenvalues \in [1..NCols(T) -> SolverValues]
       /\ eigenvectors = Identity(NCols(T))
  /\ y = Targets
  /\ df = [data |-> X_std, target |-> y]
  /\ sorted_idx = <<>> /\ pca = <<>> /\ X_pca = <<>> /\ df_pca = <<>>
  /\ stdout = <<>> /\ shown = <<>>

NextSolver ==
  \/ Sort
  \/ PrintEig
  \/ Reduce
  \/ Frame
  \/ Present

SpecSolver == InitSolver /\ [][NextSolver]_vars
(***************************************************************************)
(* Properties.                                                             *)
(***************************************************************************)
Executed(step) == \E i \in 1..Len(In) : In[i] = step

Finished == pc = Len(Program) + 1 /\ error = "none"

\* 1 Loader, 2 Standardizer, 3 Covariance/Eigen Step, 4 Reducer, 5 Presenter
StageOf(step) ==
  CASE step = "load"        -> 1
    [] step = "standardize" -> 2
    [] step \in {"cov", "eig", "sort", "print_eig"} -> 3
    [] step \in {"reduce", "frame"} -> 4
    [] step = "present"     -> 5

IsConstantFeature(T, j) == \A i \in 1..NRows(T) : T[i][j] = T[1][j]

HasConstantFeature(T) == \E j \in 1..NCols(T) : IsConstantFeature(T, j)

HasTie(v) == \E i, j \in 1..Len(v) : i # j /\ v[i] = v[j]

(* C1: the five stages run once each, in the order Loader, Standardizer,   *)
(* Covariance/Eigen Step, Reducer, Presenter: no statement group runs      *)
(* twice, no stage starts before the one before it has run, none is        *)
(* skipped, and a statement group about to run finds the values it reads   *)
(* already bound (X and y for the Standardizer, X_std for the covariance   *)
(* and the Reducer, df_pca for the plot); a finished run has run all five. *)
C1_StagesInOrder ==
  /\ error # "NameError"
  /\ \A i, j \in 1..Len(In) :
       i < j => In[i] # In[j] /\ StageOf(In[i]) <= StageOf(In[j])
  /\ Len(In) >= 1 => StageOf(In[1]) = 1
  /\ \A i \in 1..(Len(In) - 1) : StageOf(In[i + 1]) <= StageOf(In[i]) + 1
  /\ (pc \in 1..Len(Program) /\ error = "none") =>
       /\ Program[pc] = "standardize" => {"X", "y"} \subseteq ns
       /\ Program[pc] = "cov" => "X_std" \in ns
       /\ Program[pc] = "eig" => "cov_matrix" \in ns
       /\ Program[pc] = "reduce" => "X_std" \in ns
       /\ Program[pc] = "frame" => {"X_pca", "y"} \subseteq ns
       /\ Program[pc] = "present" => "df_pca" \in ns
  /\ Finished => {StageOf(In[i]) : i \in 1..Len(In)} = 1..5 /\ Len(In) = 9

C1_Witness == Finished /\ Executed("present") /\ shown = df_pca

Trace(a) == Sum([j \in 1..NRows(a) |-> a[j][j]], 1..NRows(a))

(* C5 as stated: with no constant feature every diagonal entry of the      *)
(* covariance matrix is 1 and the eigenvalues sum to the feature count M.  *)
C5_AsStated ==
  (Executed("eig") /\ ~HasConstantFeature(X)) =>
     /\ \A j \in 1..NCols(X) : cov_matrix[j][j] = One
     /\ Sum(eigenvalues, DOMAIN eigenvalues) = Int2Num(NCols(X))

(* C5 amended: the standardizer divides by the population deviation        *)
(* (denominator N), the covariance by N - 1; with no constant feature      *)
(* every diagonal entry of the covariance matrix is N/(N-1) and the        *)
(* eigenvalues sum to its trace, M*N/(N-1).                                *)
C5_DiagonalIsNOverNMinus1 ==
  (Executed("eig") /\ ~HasConstantFeature(X)) =>
     /\ \A j \in 1..NCols(X) : cov_matrix[j][j] = Rat(NRows(X), NRows(X) - 1)
     /\ Sum(eigenvalues, DOMAIN eigenvalues) = Trace(cov_matrix)
     /\ Trace(cov_matrix) = Rat(NCols(X) * NRows(X), NRows(X) - 1)

C5_Witness ==
  /\ Executed("eig")
  /\ ~HasConstantFeature(X)
  /\ NCols(X) = 3
  /\ \E i \in 1..3 : eigenvalues[i] = Zero
IdentityIdx(n) == [i \in 1..n |-> i]

(* C2: once the sort statements have run, the eigenvalue sequence is       *)
(* non-increasing, whatever the solver returned (ties and negative values  *)
(* included): eigenvalues[i] >= eigenvalues[j] for all positions i < j.    *)
C2_SortedNonIncreasing ==
  Executed("sort") =>
     \A i, j \in 1..Len(eigenvalues) : i < j => Leq(eigenvalues[j], eigenvalues[i])

C2_Witness ==
  /\ Executed("sort")
  /\ Len(eigenvalues) = 3
  /\ eigenvalues[1] = eigenvalues[2]
  /\ Less(eigenvalues[3], eigenvalues[2])
  /\ sorted_idx # IdentityIdx(3)

(* C10: the sort statements move whole pairs: sorted_idx is a permutation  *)
(* of the positions, and after the step position i holds the eigenvalue    *)
(* and the eigenvector column that stood at position sorted_idx[i] before  *)
(* it, so the pairs are the same multiset, also when eigenvalues tie.      *)
C10_PairingKept ==
  [][ (pc \in 1..Len(Program) /\ Program[pc] = "sort" /\ pc' = pc + 1) =>
        /\ sorted_idx' \in Permutations(Len(eigenvalues))
        /\ Len(eigenvalues') = Len(eigenvalues)
        /\ \A i \in 1..Len(eigenvalues) :
             /\ eigenvalues'[i] = eigenvalues[sorted_idx'[i]]
             /\ Column(eigenvectors', i) = Column(eigenvectors, sorted_idx'[i]) ]_vars

C10_Witness ==
  /\ Executed("sort")
  /\ HasTie(eigenvalues)
  /\ ~HasTie([i \in 1..Len(eigenvalues) |-> Column(eigenvectors, i)])
  /\ sorted_idx # IdentityIdx(Len(eigenvalues))
  /\ sorted_idx # Reversed(IdentityIdx(Len(eigenvalues)))

\* the tolerance -1e-6 below which an eigenvalue counts as negative
Tolerance == Rat(0 - 1, 1000000)

BelowTolerance(v) == \E i \in 1..Len(v) : Less(v[i], Tolerance)

Ratio == pca.explained_variance_ratio_

Total(v) == Sum(v, DOMAIN v)

(* C7: for a spectrum with positive total and a component count k in       *)
(* [1, M], the explained variance ratios are non-increasing, each lies in  *)
(* [0, 1], their sum is at most 1, and the sum is 1 exactly when k = M or  *)
(* every discarded eigenvalue is 0.                                        *)
C7_RatioBounds ==
  ("pca" \in ns /\ n_components \in 1..NCols(X) /\ Less(Zero, Total(eigenvalues))) =>
     /\ \A c \in 1..(n_components - 1) : Leq(Ratio[c + 1], Ratio[c])
     /\ \A c \in 1..n_components : Leq(Zero, Ratio[c]) /\ Leq(Ratio[c], One)
     /\ Leq(Total(Ratio), One)
     /\ Total(Ratio) = One <=>
          \/ n_components = NCols(X)
          \/ \A c \in (n_components + 1)..NCols(X) : eigenvalues[c] = Zero

C7_Witness ==
  /\ "pca" \in ns
  /\ n_components = 1
  /\ NCols(X) = 3
  /\ Less(eigenvalues[2], eigenvalues[1])
  /\ Less(Zero, eigenvalues[2])
  /\ Less(Zero, Ratio[1])
  /\ Less(Total(Ratio), One)

\* X_std @ eigenvectors[:, :k]
ProjectionOnEigenvectors ==
  MatMul(X_std, TakeColumns(eigenvectors, IdentityIdx(n_components)))

IsSimple(v, c) == \A i \in 1..Len(v) : i # c => v[i] # v[c]

NegColumn(col) == [i \in DOMAIN col |-> Neg(col[i])]

(* C6 as stated: the reduced matrix is X_std times the first k columns of  *)
(* the sorted eigenvector matrix, and ratio c is eigenvalue c over the sum *)
(* of all sorted eigenvalues.                                              *)
C6_AsStated ==
  Executed("reduce") =>
     /\ X_pca = ProjectionOnEigenvectors
     /\ \A c \in 1..n_components : Ratio[c] = Div(eigenvalues[c], Total(eigenvalues))

(* C6 amended: the Reducer decomposes X_std on its own; ratio c is         *)
(* eigenvalue c over the sum of all sorted eigenvalues, and column c of    *)
(* the reduced matrix is, up to its sign, the projection of X_std on the   *)
(* c-th sorted eigenvector, for every retained component whose eigenvalue  *)
(* is not repeated.                                                        *)
C6_ProjectionUpToSign ==
  Executed("reduce") =>
     \A c \in 1..n_components :
        /\ Ratio[c] = Div(eigenvalues[c], Total(eigenvalues))
        /\ IsSimple(eigenvalues, c) =>
             \/ Column(X_pca, c) = Column(ProjectionOnEigenvectors, c)
             \/ Column(X_pca, c) = NegColumn(Column(ProjectionOnEigenvectors, c))

C6_Witness ==
  /\ Executed("reduce")
  /\ ~HasTie(eigenvalues)
  /\ NCols(X) = 3
  /\ Column(X_pca, 1) = Column(ProjectionOnEigenvectors, 1)
  /\ Column(X_pca, 2) # Column(ProjectionOnEigenvectors, 2)
  /\ Column(X_pca, 2) = NegColumn(Column(ProjectionOnEigenvectors, 2))

(* C9: a stage writes only its own outputs: a step of another stage leaves *)
(* the Loader's X and y, the Standardizer's X_std and df, the              *)
(* Covariance/Eigen Step's matrices and the Reducer's outputs as they are. *)
C9_InputsUnchanged ==
  [][ (pc \in 1..Len(Program)) =>
        /\ StageOf(Program[pc]) # 1 => UNCHANGED <<X, y>>
        /\ StageOf(Program[pc]) # 2 => UNCHANGED <<X_std, df>>
        /\ StageOf(Program[pc]) # 3 =>
             UNCHANGED <<cov_matrix, eigenvalues, eigenvectors, sorted_idx>>
        /\ StageOf(Program[pc]) # 4 => UNCHANGED <<pca, X_pca, df_pca>>
        /\ StageOf(Program[pc]) # 5 => UNCHANGED shown ]_vars

C9_Witness ==
  /\ Finished
  /\ X \in Datasets
  /\ X_std = StandardScalerFitTransform(X)
  /\ \E i \in 1..NRows(X) : \E j \in 1..NCols(X) : X_std[i][j] # Int2Num(X[i][j])

=============================================================================
